---- MODULE Spec2Model ----
(***************************************************************************)
(* Model of the IoT telemetry / command-relay server.                      *)
(*                                                                         *)
(* Two server files exist in the repository:                               *)
(*   src/unnamed/part_000  the server with the live presence tracker, the  *)
(*                         TTL sweep and the bounded liveSamples ring;     *)
(*   src/app.js            the earlier server with the liveBuffer ring and *)
(*                         the Device registry.                            *)
(* Both talk to the same MongoDB collections through mongoose.  The        *)
(* mailbox poll handler is textually the same in both files.               *)
(*                                                                         *)
(* JavaScript values that arrive in a JSON body are modelled as records    *)
(* [t, n, s] (type tag, numeric content, string content) so that the       *)
(* coercions the handlers perform (Number(x), !x, typeof x) are computed   *)
(* the way JavaScript computes them.                                       *)
(***************************************************************************)
EXTENDS Integers, Sequences, FiniteSets, TLC

VARIABLES
    now,                \* Date.now(), in model time units
    readyState,         \* mongoose.connection.readyState (1 = connected)
    liveSamples,        \* part_000: const liveSamples = []
    lastSeenByDevice,   \* part_000: Map device_id -> lastSeenMs (insertion ordered)
    lastSampleByDevice, \* part_000: Map device_id -> last sample (insertion ordered)
    temperatures,       \* Temperature collection
    messages,           \* Message collection
    deviceMessages,     \* DeviceMessage collection
    liveBuffer,         \* app.js: let liveBuffer = []
    devices,            \* app.js: Device collection (registered device ids)
    reqs,               \* HTTP requests in flight: each handler's position, locals, response
    pushed              \* history: every sample pushed to liveSamples, in push order

vars == <<now, readyState, liveSamples, lastSeenByDevice, lastSampleByDevice,
          temperatures, messages, deviceMessages, liveBuffer, devices, reqs,
          pushed>>

liveVars == <<liveSamples, lastSeenByDevice, lastSampleByDevice>>
storeVars == <<temperatures, messages, deviceMessages, devices>>

-----------------------------------------------------------------------------
(* Bounds of the model *)

MaxInflight == 2   \* requests in flight at once
MaxIngests == 3    \* accepted readings in one run
MaxTime == 3       \* clock values 1..MaxTime
MaxMessages == 2   \* commands enqueued in one run
NPolls == 3        \* the concurrent consume-polls of the race scenario
MaxRaceQueued == 3 \* the commands in the store when the race starts

(* Program constants.  Both are read from the environment in part_000      *)
(* (DEVICE_TTL_MS, LIVE_BUFFER_MAX); the model runs the server configured  *)
(* with small values so that expiry and eviction happen within the bounds. *)
DEVICE_TTL_MS == 1
LIVE_BUFFER_MAX == 2
(* app.js hard-codes its ring size (20); the model scales it the same way. *)
APP_BUFFER_MAX == 2
(* GET /api/db-data: the literals 50 (default limit) and 500 (largest limit), *)
(* scaled so that the collection can hold more documents than the cap.       *)
DB_DATA_DEFAULT_LIMIT == 1
DB_DATA_MAX_LIMIT == 2

ReqIds == 1..MaxInflight

-----------------------------------------------------------------------------
(* JavaScript values *)

Undefined == [t |-> "undefined", n |-> 0, s |-> ""]
Null == [t |-> "null", n |-> 0, s |-> ""]
Num(x) == [t |-> "number", n |-> x, s |-> ""]
NaN == [t |-> "number", n |-> 0, s |-> "NaN"]
Str(x) == [t |-> "string", n |-> 0, s |-> x]
Bool(b) == [t |-> "boolean", n |-> IF b THEN 1 ELSE 0, s |-> ""]

\* typeof v
TypeOf(v) == IF v.t = "null" THEN "object" ELSE v.t

\* !!v
Truthy(v) ==
    CASE v.t = "undefined" -> FALSE
      [] v.t = "null" -> FALSE
      [] v.t = "boolean" -> v.n = 1
      [] v.t = "number" -> v.s = "" /\ v.n # 0
      [] v.t = "string" -> v.s # ""
      [] OTHER -> TRUE

\* The numeric literals the model's strings can spell.
StringNumericValue(s) ==
    CASE s = "" -> Num(0)
      [] s = "0" -> Num(0)
      [] s = "1" -> Num(1)
      [] s = "2" -> Num(2)
      [] s = "3" -> Num(3)
      [] OTHER -> NaN

\* Number(v)
ToNumber(v) ==
    CASE v.t = "undefined" -> NaN
      [] v.t = "null" -> Num(0)
      [] v.t = "boolean" -> Num(v.n)
      [] v.t = "number" -> v
      [] v.t = "string" -> StringNumericValue(v.s)
      [] OTHER -> NaN

\* Number.isFinite(v)
IsFinite(v) == v.t = "number" /\ v.s = ""

-----------------------------------------------------------------------------
(* JavaScript Map, insertion ordered: a sequence of [k, v] entries *)

MapKeys(m) == {m[i].k : i \in 1..Len(m)}
MapHas(m, k) == k \in MapKeys(m)
MapIndex(m, k) == CHOOSE i \in 1..Len(m) : m[i].k = k
MapGet(m, k) == m[MapIndex(m, k)].v
\* Map.prototype.set: an existing key keeps its position
MapSet(m, k, v) ==
    IF MapHas(m, k)
    THEN [m EXCEPT ![MapIndex(m, k)] = [k |-> k, v |-> v]]
    ELSE Append(m, [k |-> k, v |-> v])

-----------------------------------------------------------------------------
(* Inputs *)

DeviceIds == {"d1", "d2"}

\* app.js registers this device at start-up (ensureCoolingDeviceRegistered)
COOLING_DEVICE_UNIQUE_ID == "d1"

Body(d, t, f, m) == [device_unique_id |-> d, temp |-> t, fan |-> f, mode |-> m]

\* Bodies POSTed to /api/ingest: valid readings, readings that Number() coerces,
\* and the malformed ones.
IngestBodies ==
    {Body(Str("d1"), Num(1), Undefined, Undefined),
     Body(Str("d2"), Num(2), Num(1), Str("AUTO")),
     Body(Str("d1"), Null, Undefined, Undefined),
     Body(Str("d1"), Undefined, Undefined, Undefined),
     Body(Str("d1"), Str("abc"), Undefined, Undefined),
     Body(Undefined, Num(1), Undefined, Undefined),
     Body(Str(""), Num(1), Undefined, Undefined),
     Body(Num(7), Num(1), Undefined, Undefined)}

-----------------------------------------------------------------------------
(* Requests *)

Idle == [kind |-> "none", pc |-> "idle"]

\* A finished handler: the response it sent.
Done(kind, status, resBody) ==
    [kind |-> kind, pc |-> "done", status |-> status, resBody |-> resBody]

NoBody == <<>>

\* A handler is running in slot r.
Busy(r) == reqs[r].pc \notin {"idle", "done"}

\* A request takes the first slot in which no handler is running (a slot whose
\* handler has responded keeps the response until the slot is taken again).
CanArrive(r) ==
    /\ ~Busy(r)
    /\ \A q \in ReqIds : q < r => Busy(q)

-----------------------------------------------------------------------------
(* part_000: live state *)

\* (mutation of PushShift: the eviction test off by one, >= for >)
PushShiftOffByOne(ring, sample, max) ==
    LET grown == Append(ring, sample)
    IN  IF Len(grown) >= max THEN Tail(grown) ELSE grown

\* liveSamples.push(sample); if (liveSamples.length > LIVE_BUFFER_MAX) liveSamples.shift()
PushShift(ring, sample, max) ==
    LET grown == Append(ring, sample)
    IN  IF Len(grown) > max THEN Tail(grown) ELSE grown

\* the validation of POST /api/ingest
IngestDeviceIdOk(body) ==
    Truthy(body.device_unique_id) /\ TypeOf(body.device_unique_id) = "string"

IngestTempOk(body) == IsFinite(ToNumber(body.temp))

IngestValid(body) == IngestDeviceIdOk(body) /\ IngestTempOk(body)

\* the payloads that carry a non-empty string device_id and a finite number
NumericBody(body) == IngestDeviceIdOk(body) /\ body.temp.t = "number" /\ IsFinite(body.temp)

\* const sample = { device_unique_id, value: tempNum, fan: fanNum, mode: modeStr, timestamp }
MakeSample(body, t) ==
    [device_unique_id |-> body.device_unique_id.s,
     value |-> ToNumber(body.temp).n,
     fan |-> IF IsFinite(ToNumber(body.fan)) THEN ToNumber(body.fan).n ELSE 0,
     mode |-> IF TypeOf(body.mode) = "string" THEN body.mode ELSE Null,
     timestamp |-> t]

\* (mutation of RecordLive: lastSampleByDevice.set forgotten)
RecordLiveNoSample(sample, t) ==
    /\ lastSeenByDevice' = MapSet(lastSeenByDevice, sample.device_unique_id, t)
    /\ lastSampleByDevice' = lastSampleByDevice
    /\ liveSamples' = PushShift(liveSamples, sample, LIVE_BUFFER_MAX)
    /\ pushed' = Append(pushed, sample)

\* (mutation of RecordLive: lastSeenByDevice.set only for a device not yet tracked)
RecordLiveSeenOnce(sample, t) ==
    /\ lastSeenByDevice' =
          IF MapHas(lastSeenByDevice, sample.device_unique_id) THEN lastSeenByDevice
          ELSE MapSet(lastSeenByDevice, sample.device_unique_id, t)
    /\ lastSampleByDevice' = MapSet(lastSampleByDevice, sample.device_unique_id, sample)
    /\ liveSamples' = PushShift(liveSamples, sample, LIVE_BUFFER_MAX)
    /\ pushed' = Append(pushed, sample)

\* (mutation of RecordLive: the last sample kept under the first tracked key)
RecordLiveOneKey(sample, t) ==
    /\ lastSeenByDevice' = MapSet(lastSeenByDevice, sample.device_unique_id, t)
    /\ lastSampleByDevice' =
          MapSet(lastSampleByDevice,
                 IF lastSampleByDevice = <<>> THEN sample.device_unique_id
                 ELSE lastSampleByDevice[1].k,
                 sample)
    /\ liveSamples' = PushShift(liveSamples, sample, LIVE_BUFFER_MAX)
    /\ pushed' = Append(pushed, sample)

\* lastSeenByDevice.set(...); lastSampleByDevice.set(...); liveSamples.push/shift
RecordLive(sample, t) ==
    /\ lastSeenByDevice' = MapSet(lastSeenByDevice, sample.device_unique_id, t)
    /\ lastSampleByDevice' = MapSet(lastSampleByDevice, sample.device_unique_id, sample)
    /\ liveSamples' = PushShift(liveSamples, sample, LIVE_BUFFER_MAX)
    /\ pushed' = Append(pushed, sample)

\* POST /api/ingest, from the start of the handler to its first await (or to its
\* response when nothing is awaited).
IngestRequest(r, body) ==
    /\ CanArrive(r)
    /\ IF ~IngestValid(body)
       THEN /\ reqs' = [reqs EXCEPT ![r] = Done("ingest", 400, NoBody)]
            /\ UNCHANGED <<liveVars, pushed>>
       ELSE LET sample == MakeSample(body, now)
            IN  /\ Len(pushed) < MaxIngests
                /\ RecordLive(sample, now)
                /\ IF readyState = 1
                   THEN reqs' = [reqs EXCEPT ![r] =
                            [kind |-> "ingest", pc |-> "awaitMessageCreate",
                             body |-> body, sample |-> sample]]
                   ELSE reqs' = [reqs EXCEPT ![r] = Done("ingest", 201, NoBody)]
    /\ UNCHANGED <<now, readyState, storeVars, liveBuffer>>

\* await Message.create({...}): the write lands, or throws into the catch block
IngestMessageCreate(r, ok) ==
    /\ reqs[r].kind = "ingest" /\ reqs[r].pc = "awaitMessageCreate"
    /\ IF ok
       THEN /\ messages' = Append(messages,
                    [device_unique_id |-> reqs[r].sample.device_unique_id,
                     message |-> reqs[r].body,
                     timestamp |-> reqs[r].sample.timestamp])
            /\ reqs' = [reqs EXCEPT ![r].pc = "awaitTemperatureCreate"]
       ELSE /\ reqs' = [reqs EXCEPT ![r] = Done("ingest", 500, NoBody)]
            /\ UNCHANGED messages
    /\ UNCHANGED <<now, readyState, liveVars, temperatures, deviceMessages,
                   devices, liveBuffer, pushed>>

\* await Temperature.create(sample)
IngestTemperatureCreate(r, ok) ==
    /\ reqs[r].kind = "ingest" /\ reqs[r].pc = "awaitTemperatureCreate"
    /\ IF ok
       THEN /\ temperatures' = Append(temperatures, reqs[r].sample)
            /\ reqs' = [reqs EXCEPT ![r] = Done("ingest", 201, NoBody)]
       ELSE /\ reqs' = [reqs EXCEPT ![r] = Done("ingest", 500, NoBody)]
            /\ UNCHANGED temperatures
    /\ UNCHANGED <<now, readyState, liveVars, messages, deviceMessages,
                   devices, liveBuffer, pushed>>

\* GET /api/data: res.json(liveSamples).  The handler is synchronous and reads
\* only; its response is a function of the state it runs in.
GetDataResponse == liveSamples

GetData == UNCHANGED vars

\* the loop of GET /api/live-devices over lastSampleByDevice.entries()
\* (seen: the lastSeenByDevice map; lastSeenByDevice.get(deviceId) || 0)
LiveEntry(seen, e, t) ==
    LET lastSeen == IF MapHas(seen, e.k) /\ MapGet(seen, e.k) # 0
                    THEN MapGet(seen, e.k)
                    ELSE 0
    IN  [device_unique_id |-> e.k, lastSeenMs |-> lastSeen,
         ageMs |-> t - lastSeen, last |-> e.v]

RECURSIVE LiveLoop(_, _, _)
LiveLoop(seen, entries, t) ==
    IF entries = <<>> THEN <<>>
    ELSE LET x == LiveEntry(seen, Head(entries), t)
         IN  IF x.ageMs <= DEVICE_TTL_MS
             THEN <<x>> \o LiveLoop(seen, Tail(entries), t)
             ELSE LiveLoop(seen, Tail(entries), t)

\* (mutation of InsertDesc: the comparator reversed, a.lastSeenMs - b.lastSeenMs)
RECURSIVE InsertAsc(_, _)
InsertAsc(sorted, x) ==
    IF sorted = <<>> THEN <<x>>
    ELSE IF x.lastSeenMs - Head(sorted).lastSeenMs < 0
         THEN <<x>> \o sorted
         ELSE <<Head(sorted)>> \o InsertAsc(Tail(sorted), x)

\* result.sort((a, b) => b.lastSeenMs - a.lastSeenMs): stable, descending
RECURSIVE InsertDesc(_, _)
InsertDesc(sorted, x) ==
    IF sorted = <<>> THEN <<x>>
    ELSE IF Head(sorted).lastSeenMs - x.lastSeenMs < 0
         THEN <<x>> \o sorted
         ELSE <<Head(sorted)>> \o InsertDesc(Tail(sorted), x)

RECURSIVE SortDesc(_)
SortDesc(s) ==
    IF s = <<>> THEN <<>>
    ELSE InsertDesc(SortDesc(SubSeq(s, 1, Len(s) - 1)), s[Len(s)])

\* the response of GET /api/live-devices computed from the two maps at time t
LiveList(samples, seen, t) == SortDesc(LiveLoop(seen, samples, t))

ListLive(t) == LiveList(lastSampleByDevice, lastSeenByDevice, t)

\* GET /api/live-devices: synchronous and read-only, as GET /api/data
GetLiveDevicesResponse == ListLive(now)

GetLiveDevices == UNCHANGED vars

\* (mutation of Expired: the expiry test not strict, >= for >)
ExpiredAtEdge(t) ==
    {lastSeenByDevice[i].k : i \in {j \in 1..Len(lastSeenByDevice) :
                                      t - lastSeenByDevice[j].v >= DEVICE_TTL_MS}}

\* the setInterval callback: the devices it deletes
Expired(t) ==
    {lastSeenByDevice[i].k : i \in {j \in 1..Len(lastSeenByDevice) :
                                      t - lastSeenByDevice[j].v > DEVICE_TTL_MS}}

\* Map.prototype.delete of each of the keys ks
WithoutKeys(m, ks) == SelectSeq(m, LAMBDA e : e.k \notin ks)

\* (mutation of Sweep: lastSampleByDevice.delete forgotten)
SweepSeenOnly ==
    /\ lastSeenByDevice' = WithoutKeys(lastSeenByDevice, Expired(now))
    /\ UNCHANGED <<now, readyState, liveSamples, lastSampleByDevice, storeVars,
                   liveBuffer, reqs, pushed>>

Sweep ==
    /\ UNCHANGED <<now, readyState, liveSamples, storeVars, liveBuffer, reqs, pushed>>
    /\ lastSeenByDevice' = WithoutKeys(lastSeenByDevice, Expired(now))
    /\ lastSampleByDevice' = WithoutKeys(lastSampleByDevice, Expired(now))

\* the clock advances
Tick ==
    /\ now < MaxTime
    /\ now' = now + 1
    /\ UNCHANGED <<readyState, liveVars, storeVars, liveBuffer, reqs, pushed>>

\* the connection to MongoDB drops or comes back
Disconnect ==
    /\ readyState = 1
    /\ readyState' = 0
    /\ UNCHANGED <<now, liveVars, storeVars, liveBuffer, reqs, pushed>>

Reconnect ==
    /\ readyState = 0
    /\ readyState' = 1
    /\ UNCHANGED <<now, liveVars, storeVars, liveBuffer, reqs, pushed>>

-----------------------------------------------------------------------------
(* part_000: GET /api/db-data *)

DbQuery(limit, d) == [limit |-> limit, device_unique_id |-> d]

\* req.query of GET /api/db-data: limit absent, empty or a numeral; the device
\* filter absent or given
DbQueries ==
    {DbQuery(l, d) : l \in {Undefined, Str(""), Str("0"), Str("1"), Str("2"), Str("3")},
                     d \in {Undefined, Str("d1")}}

\* Math.min(a, b) of two numbers (NaN if either is NaN)
MathMin(a, b) ==
    IF ~IsFinite(a) \/ ~IsFinite(b) THEN NaN
    ELSE IF a.n <= b.n THEN a ELSE b

\* const limit = Math.min(Number(req.query.limit || 50), 500)
DbDataLimit(q) ==
    MathMin(ToNumber(IF Truthy(q.limit) THEN q.limit ELSE Num(DB_DATA_DEFAULT_LIMIT)),
            Num(DB_DATA_MAX_LIMIT))

\* const filter = deviceId ? { device_unique_id: deviceId } : {}; Temperature.find(filter)
DbDataFilter(store, q) ==
    IF Truthy(q.device_unique_id)
    THEN SelectSeq(store, LAMBDA x : x.device_unique_id = q.device_unique_id.s)
    ELSE store

\* .sort({ timestamp: -1 }): the orders the query may produce (MongoDB leaves
\* the order of documents with equal timestamps open)
DescOrders(docs) ==
    {p \in [1..Len(docs) -> 1..Len(docs)] :
        /\ \A i, j \in 1..Len(docs) : i # j => p[i] # p[j]
        /\ \A i, j \in 1..Len(docs) :
              i < j => docs[p[i]].timestamp >= docs[p[j]].timestamp}

Permuted(docs, p) == [i \in 1..Len(docs) |-> docs[p[i]]]

\* .limit(n) of a MongoDB cursor: 0 means no limit
CursorLimit(docs, n) ==
    IF n = 0 \/ n >= Len(docs) THEN docs ELSE SubSeq(docs, 1, n)

\* results.reverse()
Reverse(s) == [i \in 1..Len(s) |-> s[Len(s) + 1 - i]]

\* what the awaited Temperature.find(filter).sort({ timestamp: -1 }).limit(limit)
\* .lean() followed by results.reverse() can yield on this collection
DbDataResults(store, q) ==
    LET docs == DbDataFilter(store, q)
    IN  {Reverse(CursorLimit(Permuted(docs, p), DbDataLimit(q).n)) : p \in DescOrders(docs)}

\* the responses GET /api/db-data can give to the query q: res.json(results.reverse()),
\* or 500 when the query throws
DbDataResponses(q) ==
    {[status |-> 500, resBody |-> NoBody]}
    \cup {[status |-> 200, resBody |-> x] : x \in DbDataResults(temperatures, q)}

\* GET /api/db-data.  The handler reads the state once, in its one awaited
\* query, and writes nothing: its response is a function of the collection at
\* the moment the query runs.
DbData == UNCHANGED vars

-----------------------------------------------------------------------------
(* The command mailbox (POST /api/device-message and                        *)
(* GET /api/device-message/:device_unique_id; the poll handler is the same   *)
(* in both server files).  A DeviceMessage document is                       *)
(* [id, device_unique_id, timestamp, params_to_send, consumed].              *)

EnqueueBody(d, p) == [device_unique_id |-> d, params_to_send |-> p]

\* Bodies POSTed to /api/device-message
EnqueueBodies ==
    {EnqueueBody(Str("d1"), Str("p1")), EnqueueBody(Str("d1"), Str("p2")),
     EnqueueBody(Str("d2"), Str("p1"))}
    \cup {EnqueueBody(Str("d1"), Null),
          EnqueueBody(Str("d1"), Undefined),
          EnqueueBody(Undefined, Str("p1")),
          EnqueueBody(Num(7), Str("p1"))}

\* the validation of POST /api/device-message
EnqueueValid(body) ==
    /\ Truthy(body.device_unique_id) /\ TypeOf(body.device_unique_id) = "string"
    /\ body.params_to_send.t # "undefined"

EnqueueInflight == Cardinality({r \in ReqIds : reqs[r].kind = "enqueue" /\ Busy(r)})

\* POST /api/device-message, to its await: DeviceMessage.create({..., timestamp: new Date()})
EnqueueRequest(r, body) ==
    /\ CanArrive(r)
    /\ IF ~EnqueueValid(body)
       THEN reqs' = [reqs EXCEPT ![r] = Done("enqueue", 400, NoBody)]
       ELSE /\ Len(deviceMessages) + EnqueueInflight < MaxMessages
            /\ reqs' = [reqs EXCEPT ![r] =
                    [kind |-> "enqueue", pc |-> "awaitCreate",
                     doc |-> [device_unique_id |-> body.device_unique_id.s,
                              timestamp |-> now,
                              params_to_send |-> body.params_to_send,
                              consumed |-> FALSE]]]
    /\ UNCHANGED <<now, readyState, liveVars, storeVars, liveBuffer, pushed>>

\* DeviceMessageSchema: params_to_send is required, which a null fails
SchemaAccepts(doc) == doc.params_to_send.t \notin {"undefined", "null"}

\* the document DeviceMessage.create inserts: the next _id
Inserted(store, doc) ==
    [id |-> Len(store) + 1,
     device_unique_id |-> doc.device_unique_id,
     timestamp |-> doc.timestamp,
     params_to_send |-> doc.params_to_send,
     consumed |-> doc.consumed]

\* await DeviceMessage.create(...): the insert lands, or throws
EnqueueCreate(r, ok) ==
    /\ reqs[r].kind = "enqueue" /\ reqs[r].pc = "awaitCreate"
    /\ IF ok /\ SchemaAccepts(reqs[r].doc)
       THEN /\ deviceMessages' = Append(deviceMessages, Inserted(deviceMessages, reqs[r].doc))
            /\ reqs' = [reqs EXCEPT ![r] =
                    Done("enqueue", 201, [status |-> "queued", id |-> Len(deviceMessages) + 1])]
       ELSE /\ reqs' = [reqs EXCEPT ![r] = Done("enqueue", 500, NoBody)]
            /\ UNCHANGED deviceMessages
    /\ UNCHANGED <<now, readyState, liveVars, temperatures, messages, devices,
                   liveBuffer, pushed>>

\* GET /api/device-message/:device_unique_id, to its await
PollRequest(r, d, peek) ==
    /\ CanArrive(r)
    /\ reqs' = [reqs EXCEPT ![r] =
            [kind |-> "poll", pc |-> "awaitFind", device_unique_id |-> d, peek |-> peek]]
    /\ UNCHANGED <<now, readyState, liveVars, storeVars, liveBuffer, pushed>>

\* (mutation of Matching: the filter without device_unique_id)
MatchingAnyDevice(store, d) ==
    {i \in 1..Len(store) : store[i].consumed = FALSE}

\* (mutation of Matching: the filter without consumed: false)
MatchingAnyState(store, d) ==
    {i \in 1..Len(store) : store[i].device_unique_id = d}

\* const filter = { device_unique_id, consumed: false }
Matching(store, d) ==
    {i \in 1..Len(store) : store[i].device_unique_id = d /\ store[i].consumed = FALSE}

\* (mutation of Oldest: sort { timestamp: -1 })
Newest(store, d) ==
    {i \in Matching(store, d) :
        \A j \in Matching(store, d) : store[i].timestamp >= store[j].timestamp}

\* sort { timestamp: 1 }: the documents the query may select (MongoDB leaves
\* the order of equal timestamps open)
Oldest(store, d) ==
    {i \in Matching(store, d) :
        \A j \in Matching(store, d) : store[i].timestamp <= store[j].timestamp}

\* (mutation of FindOneAndUpdate: updateMany, every Queued entry of the device
\* is marked consumed)
FindOneAndUpdateMany(store, i) ==
    LET updated == [j \in 1..Len(store) |->
                       IF store[j].device_unique_id = store[i].device_unique_id
                       THEN [store[j] EXCEPT !.consumed = TRUE]
                       ELSE store[j]]
    IN  [store |-> updated, msg |-> updated[i]]

\* (mutation of FindOneAndUpdate: the update is not applied)
FindOneAndUpdateNoUpdate(store, i) == [store |-> store, msg |-> store[i]]

\* (mutation of FindOneAndUpdate: new: false, the document before the update)
FindOneAndUpdateOld(store, i) ==
    [store |-> [store EXCEPT ![i].consumed = TRUE], msg |-> store[i]]

\* DeviceMessage.findOneAndUpdate(filter, { $set: { consumed: true } },
\*                                { sort, new: true }): one atomic operation
FindOneAndUpdate(store, i) ==
    LET updated == [store EXCEPT ![i].consumed = TRUE]
    IN  [store |-> updated, msg |-> updated[i]]

\* (mutation of FindOne: the peek branch consumes)
FindOneConsuming(store, i) == FindOneAndUpdate(store, i)

\* DeviceMessage.findOne(filter).sort({ timestamp: 1 }).lean()
FindOne(store, i) == [store |-> store, msg |-> store[i]]

\* res.json({ device_unique_id, timestamp, params_to_send, consumed })
PollBody(msg) ==
    [device_unique_id |-> msg.device_unique_id,
     timestamp |-> msg.timestamp,
     params_to_send |-> msg.params_to_send,
     consumed |-> msg.consumed]

NoMsg == [id |-> 0]

PollDone(r, status, msg) ==
    [kind |-> "poll", pc |-> "done", status |-> status,
     resBody |-> IF status = 200 THEN PollBody(msg) ELSE NoBody,
     msg |-> msg, device_unique_id |-> reqs[r].device_unique_id, peek |-> reqs[r].peek]

\* the awaited query of a poll runs (choice: which of the oldest it selects),
\* or throws
PollStorage(r, ok, choice) ==
    /\ reqs[r].kind = "poll" /\ reqs[r].pc = "awaitFind"
    /\ LET d == reqs[r].device_unique_id
           found == Oldest(deviceMessages, d)
       IN  IF ~ok
           THEN /\ reqs' = [reqs EXCEPT ![r] = PollDone(r, 500, NoMsg)]
                /\ UNCHANGED deviceMessages
           ELSE IF found = {}
           THEN /\ reqs' = [reqs EXCEPT ![r] = PollDone(r, 204, NoMsg)]
                /\ UNCHANGED deviceMessages
           ELSE /\ choice \in found
                /\ LET result == IF reqs[r].peek
                                 THEN FindOne(deviceMessages, choice)
                                 ELSE FindOneAndUpdate(deviceMessages, choice)
                   IN  /\ deviceMessages' = result.store
                       /\ reqs' = [reqs EXCEPT ![r] = PollDone(r, 200, result.msg)]
    /\ UNCHANGED <<now, readyState, liveVars, temperatures, messages, devices,
                   liveBuffer, pushed>>

-----------------------------------------------------------------------------
(* app.js: the earlier server.  Its ingest handler looks the device up in    *)
(* the Device collection and writes the Message document before it builds   *)
(* the sample and pushes it to liveBuffer.                                   *)

\* const sample = {...} of app.js: fan keeps a non-numeric value (fan ?? 0)
AppMakeSample(body, t) ==
    [device_unique_id |-> body.device_unique_id.s,
     value |-> ToNumber(body.temp).n,
     fan |-> IF IsFinite(ToNumber(body.fan)) THEN ToNumber(body.fan)
             ELSE IF body.fan.t \in {"undefined", "null"} THEN Num(0)
             ELSE body.fan,
     mode |-> IF TypeOf(body.mode) = "string" THEN body.mode ELSE Null,
     timestamp |-> t]

AppInflight == Cardinality({r \in ReqIds : reqs[r].kind = "appIngest" /\ Busy(r)})

\* POST /api/ingest of app.js, to its first await: Device.findOne(...)
AppIngestRequest(r, body) ==
    /\ CanArrive(r)
    /\ IF ~IngestValid(body)
       THEN reqs' = [reqs EXCEPT ![r] = Done("appIngest", 400, NoBody)]
       ELSE /\ Len(pushed) + AppInflight < MaxIngests
            /\ reqs' = [reqs EXCEPT ![r] =
                    [kind |-> "appIngest", pc |-> "awaitDeviceFindOne", body |-> body]]
    /\ UNCHANGED <<now, readyState, liveVars, storeVars, liveBuffer, pushed>>

\* steps 4 and 5 of the handler, run without suspension: build the sample, push
\* it, and either call Temperature.create or respond
AppPushSample(r) ==
    LET sample == AppMakeSample(reqs[r].body, now)
    IN  /\ liveBuffer' = PushShift(liveBuffer, sample, APP_BUFFER_MAX)
        /\ pushed' = Append(pushed, sample)
        /\ IF readyState = 1
           THEN reqs' = [reqs EXCEPT ![r] =
                    [kind |-> "appIngest", pc |-> "awaitTemperatureCreate",
                     body |-> reqs[r].body, sample |-> sample]]
           ELSE reqs' = [reqs EXCEPT ![r] = Done("appIngest", 201, NoBody)]

\* await Device.findOne({ device_unique_id }).lean()
AppIngestDeviceFindOne(r, ok) ==
    /\ reqs[r].kind = "appIngest" /\ reqs[r].pc = "awaitDeviceFindOne"
    /\ IF ~ok
       THEN /\ reqs' = [reqs EXCEPT ![r] = Done("appIngest", 500, NoBody)]
            /\ UNCHANGED <<liveBuffer, pushed>>
       ELSE IF reqs[r].body.device_unique_id.s \notin devices
       THEN /\ reqs' = [reqs EXCEPT ![r] = Done("appIngest", 403, NoBody)]
            /\ UNCHANGED <<liveBuffer, pushed>>
       ELSE IF readyState = 1
       THEN /\ reqs' = [reqs EXCEPT ![r] =
                    [kind |-> "appIngest", pc |-> "awaitMessageCreate",
                     body |-> reqs[r].body, msgTimestamp |-> now]]
            /\ UNCHANGED <<liveBuffer, pushed>>
       ELSE AppPushSample(r)
    /\ UNCHANGED <<now, readyState, liveVars, storeVars>>

\* await Message.create({...})
AppIngestMessageCreate(r, ok) ==
    /\ reqs[r].kind = "appIngest" /\ reqs[r].pc = "awaitMessageCreate"
    /\ IF ok
       THEN /\ messages' = Append(messages,
                    [device_unique_id |-> reqs[r].body.device_unique_id.s,
                     message |-> reqs[r].body,
                     timestamp |-> reqs[r].msgTimestamp])
            /\ AppPushSample(r)
       ELSE /\ reqs' = [reqs EXCEPT ![r] = Done("appIngest", 500, NoBody)]
            /\ UNCHANGED <<messages, liveBuffer, pushed>>
    /\ UNCHANGED <<now, readyState, liveVars, temperatures, deviceMessages, devices>>

\* await Temperature.create(sample)
AppIngestTemperatureCreate(r, ok) ==
    /\ reqs[r].kind = "appIngest" /\ reqs[r].pc = "awaitTemperatureCreate"
    /\ IF ok
       THEN /\ temperatures' = Append(temperatures, reqs[r].sample)
            /\ reqs' = [reqs EXCEPT ![r] = Done("appIngest", 201, NoBody)]
       ELSE /\ reqs' = [reqs EXCEPT ![r] = Done("appIngest", 500, NoBody)]
            /\ UNCHANGED temperatures
    /\ UNCHANGED <<now, readyState, liveVars, messages, deviceMessages,
                   devices, liveBuffer, pushed>>

\* GET /api/data of app.js: res.json(liveBuffer)
AppGetDataResponse == liveBuffer

AppGetData == UNCHANGED vars

\* GET /api/db-data of app.js: Temperature.find().sort({ timestamp: -1 }).limit(50),
\* reversed; req.query is not read
AppDbDataResults(store) ==
    {Reverse(CursorLimit(Permuted(store, p), DB_DATA_DEFAULT_LIMIT)) : p \in DescOrders(store)}

AppDbData == UNCHANGED vars

AppEnqueueInflight ==
    Cardinality({r \in ReqIds : reqs[r].kind = "appEnqueue" /\ Busy(r)})

\* POST /api/device-message of app.js, to its first await: Device.findOne(...)
AppEnqueueRequest(r, body) ==
    /\ CanArrive(r)
    /\ IF ~EnqueueValid(body)
       THEN reqs' = [reqs EXCEPT ![r] = Done("appEnqueue", 400, NoBody)]
       ELSE /\ Len(deviceMessages) + AppEnqueueInflight < MaxMessages
            /\ reqs' = [reqs EXCEPT ![r] =
                    [kind |-> "appEnqueue", pc |-> "awaitDeviceFindOne", body |-> body]]
    /\ UNCHANGED <<now, readyState, liveVars, storeVars, liveBuffer, pushed>>

\* const dev = await Device.findOne({ device_unique_id }).lean();
\* if (!dev) return res.status(403)...; then DeviceMessage.create({..., timestamp: new Date()})
AppEnqueueDeviceFindOne(r, ok) ==
    /\ reqs[r].kind = "appEnqueue" /\ reqs[r].pc = "awaitDeviceFindOne"
    /\ IF ~ok
       THEN reqs' = [reqs EXCEPT ![r] = Done("appEnqueue", 500, NoBody)]
       ELSE IF reqs[r].body.device_unique_id.s \notin devices
       THEN reqs' = [reqs EXCEPT ![r] = Done("appEnqueue", 403, NoBody)]
       ELSE reqs' = [reqs EXCEPT ![r] =
                [kind |-> "appEnqueue", pc |-> "awaitCreate", body |-> reqs[r].body,
                 doc |-> [device_unique_id |-> reqs[r].body.device_unique_id.s,
                          timestamp |-> now,
                          params_to_send |-> reqs[r].body.params_to_send,
                          consumed |-> FALSE]]]
    /\ UNCHANGED <<now, readyState, liveVars, storeVars, liveBuffer, pushed>>

\* await DeviceMessage.create(...) of app.js
AppEnqueueCreate(r, ok) ==
    /\ reqs[r].kind = "appEnqueue" /\ reqs[r].pc = "awaitCreate"
    /\ IF ok /\ SchemaAccepts(reqs[r].doc)
       THEN /\ deviceMessages' = Append(deviceMessages, Inserted(deviceMessages, reqs[r].doc))
            /\ reqs' = [reqs EXCEPT ![r] =
                    Done("appEnqueue", 201, [status |-> "queued", id |-> Len(deviceMessages) + 1])]
       ELSE /\ reqs' = [reqs EXCEPT ![r] = Done("appEnqueue", 500, NoBody)]
            /\ UNCHANGED deviceMessages
    /\ UNCHANGED <<now, readyState, liveVars, temperatures, messages, devices,
                   liveBuffer, pushed>>

-----------------------------------------------------------------------------
(* Initial state: connectMongo() has succeeded and the server listens *)

Init ==
    /\ now = 1
    /\ readyState = 1
    /\ liveSamples = <<>>
    /\ lastSeenByDevice = <<>>
    /\ lastSampleByDevice = <<>>
    /\ temperatures = <<>>
    /\ messages = <<>>
    /\ deviceMessages = <<>>
    /\ liveBuffer = <<>>
    /\ devices = {COOLING_DEVICE_UNIQUE_ID}
    /\ reqs = [r \in ReqIds |-> Idle]
    /\ pushed = <<>>

NextLive ==
    \/ \E r \in ReqIds, body \in IngestBodies : IngestRequest(r, body)
    \/ \E r \in ReqIds, ok \in BOOLEAN : IngestMessageCreate(r, ok)
    \/ \E r \in ReqIds, ok \in BOOLEAN : IngestTemperatureCreate(r, ok)
    \/ GetData
    \/ GetLiveDevices
    \/ Sweep
    \/ Tick
    \/ Disconnect
    \/ Reconnect

SpecLive == Init /\ [][NextLive]_vars

NextMailbox ==
    \/ \E r \in ReqIds, body \in EnqueueBodies : EnqueueRequest(r, body)
    \/ \E r \in ReqIds, ok \in BOOLEAN : EnqueueCreate(r, ok)
    \/ \E r \in ReqIds, d \in DeviceIds, peek \in BOOLEAN : PollRequest(r, d, peek)
    \/ \E r \in ReqIds, ok \in BOOLEAN, choice \in 0..MaxMessages :
          PollStorage(r, ok, choice)
    \/ Tick

SpecMailbox == Init /\ [][NextMailbox]_vars

\* a consume-poll of device d arrives
ConsumePollArrives(d) == \E r \in ReqIds : PollRequest(r, d, FALSE)

\* the awaited query of a consume-poll of device d runs and does not throw
ConsumePollReachesStorage(d) ==
    \E r \in ReqIds, choice \in 0..MaxMessages :
        /\ reqs[r].kind = "poll" /\ reqs[r].pc = "awaitFind"
        /\ reqs[r].device_unique_id = d /\ ~reqs[r].peek
        /\ PollStorage(r, TRUE, choice)

\* an awaited storage operation settles: the promise resolves or rejects
StorageSettles ==
    \/ \E r \in ReqIds, ok \in BOOLEAN : EnqueueCreate(r, ok)
    \/ \E r \in ReqIds, ok \in BOOLEAN, choice \in 0..MaxMessages :
          PollStorage(r, ok, choice)

\* The mailbox with devices that keep polling: every awaited storage operation
\* settles, each device issues consume-polls again and again, and again and
\* again one of them reaches storage.
SpecMailboxFair ==
    /\ Init
    /\ [][NextMailbox]_vars
    /\ WF_vars(StorageSettles)
    /\ \A d \in DeviceIds :
          /\ SF_vars(ConsumePollArrives(d))
          /\ SF_vars(ConsumePollReachesStorage(d))

\* The race of C1: the store holds commands (all Queued) for the two devices,
\* and NPolls consume-polls for d1 have all reached their awaited query.
RaceDocs ==
    [device_unique_id : DeviceIds, timestamp : 1..2,
     params_to_send : {Str("p1")}, consumed : {FALSE}]

RaceStores ==
    UNION {[1..n -> RaceDocs] : n \in 0..MaxRaceQueued}

InitRace ==
    /\ now = 2
    /\ readyState = 1
    /\ liveSamples = <<>>
    /\ lastSeenByDevice = <<>>
    /\ lastSampleByDevice = <<>>
    /\ temperatures = <<>>
    /\ messages = <<>>
    /\ \E docs \in RaceStores :
          deviceMessages = [i \in 1..Len(docs) |-> Inserted(SubSeq(docs, 1, i - 1), docs[i])]
    /\ liveBuffer = <<>>
    /\ devices = {COOLING_DEVICE_UNIQUE_ID}
    /\ reqs = [r \in 1..NPolls |->
                 [kind |-> "poll", pc |-> "awaitFind", device_unique_id |-> "d1",
                  peek |-> FALSE]]
    /\ pushed = <<>>

NextRace ==
    \E r \in 1..NPolls, ok \in BOOLEAN, choice \in 0..MaxRaceQueued :
        PollStorage(r, ok, choice)

SpecRace == InitRace /\ [][NextRace]_vars

NextApp ==
    \/ \E r \in ReqIds, body \in IngestBodies : AppIngestRequest(r, body)
    \/ \E r \in ReqIds, ok \in BOOLEAN : AppIngestDeviceFindOne(r, ok)
    \/ \E r \in ReqIds, ok \in BOOLEAN : AppIngestMessageCreate(r, ok)
    \/ \E r \in ReqIds, ok \in BOOLEAN : AppIngestTemperatureCreate(r, ok)
    \/ AppGetData
    \/ AppDbData
    \/ Tick
    \/ Disconnect
    \/ Reconnect

SpecApp == Init /\ [][NextApp]_vars

\* The readings ingested while the history is read
HistoryBodies == {b \in IngestBodies : NumericBody(b)}

\* The durable history: ingest writes it, GET /api/db-data reads it
NextHistory ==
    \/ \E r \in ReqIds, body \in HistoryBodies : IngestRequest(r, body)
    \/ \E r \in ReqIds, ok \in BOOLEAN : IngestMessageCreate(r, ok)
    \/ \E r \in ReqIds, ok \in BOOLEAN : IngestTemperatureCreate(r, ok)
    \/ DbData
    \/ Tick

SpecHistory == Init /\ [][NextHistory]_vars

\* The mailbox as app.js serves it: its enqueue handler and the poll handler
NextAppMailbox ==
    \/ \E r \in ReqIds, body \in EnqueueBodies : AppEnqueueRequest(r, body)
    \/ \E r \in ReqIds, ok \in BOOLEAN : AppEnqueueDeviceFindOne(r, ok)
    \/ \E r \in ReqIds, ok \in BOOLEAN : AppEnqueueCreate(r, ok)
    \/ \E r \in ReqIds, d \in DeviceIds, peek \in BOOLEAN : PollRequest(r, d, peek)
    \/ \E r \in ReqIds, ok \in BOOLEAN, choice \in 0..MaxMessages :
          PollStorage(r, ok, choice)
    \/ Tick

SpecAppMailbox == Init /\ [][NextAppMailbox]_vars

\* Both servers against the same database
Next == NextLive \/ NextMailbox \/ NextApp \/ NextAppMailbox

Spec == Init /\ [][Next]_vars

-----------------------------------------------------------------------------
(* Properties of the live state (part_000) *)

LastN(s, n) == SubSeq(s, IF Len(s) > n THEN Len(s) - n + 1 ELSE 1, Len(s))

Ids(list) == {list[i].device_unique_id : i \in 1..Len(list)}

\* C2: the ring never holds more than LIVE_BUFFER_MAX samples, and what
\* GET /api/data returns is exactly the last LIVE_BUFFER_MAX samples pushed,
\* in push order, oldest first.
C2_RingIsLastPushed ==
    /\ Len(liveSamples) <= LIVE_BUFFER_MAX
    /\ GetDataResponse = LastN(pushed, LIVE_BUFFER_MAX)

\* (the same property of app.js's liveBuffer, checked under SpecApp)
C2_AppRingIsLastPushed ==
    /\ Len(liveBuffer) <= APP_BUFFER_MAX
    /\ AppGetDataResponse = LastN(pushed, APP_BUFFER_MAX)

\* more than LIVE_BUFFER_MAX samples were pushed: the ring has evicted
C2_Witness ==
    /\ Len(pushed) > LIVE_BUFFER_MAX
    /\ Len(GetDataResponse) = LIVE_BUFFER_MAX
    /\ GetDataResponse[1] # pushed[1]

\* C6: right after the in-memory update of an ingest with a valid payload,
\* GET /api/live-devices lists the device, with the submitted reading as the
\* value of its last sample.
C6_IngestThenListed ==
    [][\A r \in ReqIds, body \in IngestBodies :
          (NumericBody(body) /\ IngestRequest(r, body)) =>
              LET res == LiveList(lastSampleByDevice', lastSeenByDevice', now')
              IN  \E i \in 1..Len(res) :
                      /\ res[i].device_unique_id = body.device_unique_id.s
                      /\ res[i].last.value = body.temp.n
                      /\ res[i].ageMs = 0]_vars

\* a device that was tracked before reports again and is listed with the new reading
C6_Witness ==
    /\ Len(pushed) >= 2
    /\ pushed[Len(pushed)].device_unique_id = pushed[1].device_unique_id
    /\ pushed[Len(pushed)].timestamp = now
    /\ pushed[Len(pushed)].timestamp > pushed[1].timestamp
    /\ \E i \in 1..Len(GetLiveDevicesResponse) :
           /\ GetLiveDevicesResponse[i].last = pushed[Len(pushed)]
           /\ GetLiveDevicesResponse[i].ageMs = 0

\* the request of slot r has been answered with this status
Answered(r, status) == reqs'[r].pc = "done" /\ reqs'[r].status = status

\* the malformed payloads of C8: device_id missing or not a string, temp missing
\* or not a number
Malformed(body) ==
    \/ body.device_unique_id.t = "undefined"
    \/ TypeOf(body.device_unique_id) # "string"
    \/ body.temp.t = "undefined"
    \/ TypeOf(body.temp) # "number"

\* C8: an ingest whose device_id is missing or not a string, or whose temp is
\* missing or not a number, is answered 400 and changes neither the presence
\* tracker, nor the ring, nor the collections.
C8_MalformedRejected ==
    [][\A r \in ReqIds, body \in IngestBodies :
          (Malformed(body) /\ IngestRequest(r, body)) =>
              Answered(r, 400) /\ UNCHANGED <<liveVars, storeVars>>]_vars

\* (what the validation does reject: a payload whose device_id is not a
\* non-empty string or whose Number(temp) is not finite)
C8_NotValidRejected ==
    [][\A r \in ReqIds, body \in IngestBodies :
          (~IngestValid(body) /\ IngestRequest(r, body)) =>
              Answered(r, 400) /\ UNCHANGED <<liveVars, storeVars>>]_vars

Last(s) == s[Len(s)]

\* C9, for part_000: the step of an accepted ingest that reaches its first
\* awaited storage operation has already updated the tracker and the ring, and
\* no later step of the request (a storage success or failure) touches them.
C9_LiveBeforeStorage ==
    [][/\ \A r \in ReqIds, body \in IngestBodies :
             (IngestValid(body) /\ IngestRequest(r, body)) =>
                 /\ MapGet(lastSeenByDevice', body.device_unique_id.s) = now
                 /\ MapGet(lastSampleByDevice', body.device_unique_id.s) = Last(liveSamples')
                 /\ Last(liveSamples').value = ToNumber(body.temp).n
                 /\ Last(liveSamples').timestamp = now
                 /\ UNCHANGED storeVars
       /\ \A r \in ReqIds, ok \in BOOLEAN :
             (IngestMessageCreate(r, ok) \/ IngestTemperatureCreate(r, ok)) =>
                 UNCHANGED liveVars]_vars

\* an ingest answered 500 whose reading is in the tracker and in the ring
C9_LiveWitness ==
    \E r \in ReqIds :
        /\ reqs[r].kind = "ingest" /\ reqs[r].pc = "done" /\ reqs[r].status = 500
        /\ liveSamples # <<>>
        /\ temperatures = <<>>
        /\ MapHas(lastSampleByDevice, Last(liveSamples).device_unique_id)

\* C9, for app.js: the step of an accepted ingest (validated, for a
\* registered device) that reaches its first awaited storage operation has
\* already pushed the reading to the ring.
C9_AppLiveBeforeStorage ==
    [][\A r \in ReqIds, body \in IngestBodies :
          (/\ IngestValid(body)
           /\ NumericBody(body)
           /\ body.device_unique_id.s \in devices
           /\ AppIngestRequest(r, body)) =>
              /\ liveBuffer' # <<>>
              /\ Last(liveBuffer').device_unique_id = body.device_unique_id.s
              /\ Last(liveBuffer').value = ToNumber(body.temp).n]_vars

\* devices whose last ingest is older than the TTL
StaleIn(seen, t) == {d \in MapKeys(seen) : t - MapGet(seen, d) > DEVICE_TTL_MS}

StoredFor(store, d) == SelectSeq(store, LAMBDA x : x.device_unique_id = d)

\* GET /api/live-devices lists no device that has been silent for longer than the TTL
NoStaleListed(samples, seen, t) == Ids(LiveList(samples, seen, t)) \cap StaleIn(seen, t) = {}

\* C7: a device silent for longer than the TTL is never listed by
\* GET /api/live-devices, the sweep removes it from the tracker, and the sweep
\* leaves its readings in the Temperature collection.
C7_StaleDeviceLeaves ==
    [][/\ NoStaleListed(lastSampleByDevice, lastSeenByDevice, now)
       /\ NoStaleListed(lastSampleByDevice', lastSeenByDevice', now')
       /\ Sweep =>
            \A d \in StaleIn(lastSeenByDevice, now) :
                /\ d \notin MapKeys(lastSeenByDevice')
                /\ d \notin MapKeys(lastSampleByDevice')
                /\ d \notin Ids(LiveList(lastSampleByDevice', lastSeenByDevice', now'))
                /\ StoredFor(temperatures', d) = StoredFor(temperatures, d)]_vars

\* a device with stored readings has been swept out of the tracker
C7_Witness ==
    \E d \in DeviceIds :
        /\ StoredFor(temperatures, d) # <<>>
        /\ ~MapHas(lastSeenByDevice, d)
        /\ ~MapHas(lastSampleByDevice, d)
        /\ d \notin Ids(GetLiveDevicesResponse)

-----------------------------------------------------------------------------
(* Properties of the command mailbox *)

Polls == {r \in DOMAIN reqs : reqs[r].kind = "poll"}
PollsDone == {r \in Polls : reqs[r].pc = "done"}
PollsWith(status) == {r \in PollsDone : reqs[r].status = status}

\* C1: N concurrent consume-polls for one device whose mailbox holds M Queued
\* entries, N > M, no enqueue: once all N queries have run, exactly M polls have
\* returned an entry, the other N - M have returned none (204); and at no time
\* have two polls returned the same entry.
C1_ExactlyOnce ==
    LET M == Cardinality({i \in 1..Len(deviceMessages) :
                             deviceMessages[i].device_unique_id = "d1"})
        N == Cardinality(Polls)
    IN  /\ \A r1, r2 \in PollsWith(200) :
              r1 # r2 => reqs[r1].msg.id # reqs[r2].msg.id
        /\ (PollsDone = Polls /\ PollsWith(500) = {} /\ N > M) =>
              /\ Cardinality(PollsWith(200)) = M
              /\ Cardinality(PollsWith(204)) = N - M
              /\ \A r \in PollsWith(200) : reqs[r].resBody.consumed = TRUE

\* (under SpecMailbox, with enqueues, peeks and polls of both devices mixed:
\* two consume-polls whose responses are both at hand returned different entries,
\* and every entry a consume-poll returned is Delivered in the store)
C1_NoDoubleDelivery ==
    /\ \A r1, r2 \in PollsWith(200) :
          (r1 # r2 /\ ~reqs[r1].peek /\ ~reqs[r2].peek) =>
              reqs[r1].msg.id # reqs[r2].msg.id
    /\ \A r \in PollsWith(200) :
          ~reqs[r].peek => deviceMessages[reqs[r].msg.id].consumed

\* all polls have run against a mailbox of two entries with equal timestamps:
\* two got an entry, the others got none
C1_Witness ==
    /\ PollsDone = Polls
    /\ PollsWith(500) = {}
    /\ Cardinality(PollsWith(200)) = 2
    /\ Cardinality(PollsWith(204)) = Cardinality(Polls) - 2
    /\ PollsWith(204) # {}
    /\ \E r1, r2 \in PollsWith(200) :
          r1 # r2 /\ reqs[r1].msg.timestamp = reqs[r2].msg.timestamp

\* the query of the poll in slot r runs in this step and succeeds
PollRuns(r) ==
    /\ r \in Polls /\ reqs[r].pc = "awaitFind"
    /\ reqs'[r].pc = "done" /\ reqs'[r].status # 500
    /\ \E choice \in 0..MaxMessages : PollStorage(r, TRUE, choice)

\* C3: a poll (peek or consume) returns an entry that is for its device, was
\* Queued when the query ran, and has the smallest timestamp among the Queued
\* entries of that device; it returns none only when there is none.
C3_OldestFirst ==
    [][\A r \in ReqIds :
          PollRuns(r) =>
              LET d == reqs[r].device_unique_id
                  queued == Matching(deviceMessages, d)
              IN  IF queued = {}
                  THEN reqs'[r].status = 204
                  ELSE /\ reqs'[r].status = 200
                       /\ reqs'[r].msg.id \in queued
                       /\ reqs'[r].resBody.device_unique_id = d
                       /\ \A j \in queued :
                             reqs'[r].resBody.timestamp <= deviceMessages[j].timestamp]_vars

\* a poll returned the older of two Queued entries although it was inserted later
C3_Witness ==
    \E r \in PollsWith(200) :
        \E j \in Matching(deviceMessages, reqs[r].device_unique_id) :
            /\ j < reqs[r].msg.id
            /\ deviceMessages[j].timestamp > reqs[r].msg.timestamp

\* C4: a peek-poll leaves the DeviceMessage collection unchanged, and for a
\* device with one Queued entry it returns that entry with consumed = false.
C4_PeekDoesNotConsume ==
    [][\A r \in ReqIds :
          (PollRuns(r) /\ reqs[r].peek) =>
              /\ deviceMessages' = deviceMessages
              /\ \A i \in 1..Len(deviceMessages) :
                    Matching(deviceMessages, reqs[r].device_unique_id) = {i} =>
                        /\ reqs'[r].status = 200
                        /\ reqs'[r].msg = deviceMessages[i]
                        /\ reqs'[r].resBody.consumed = FALSE
                        /\ Matching(deviceMessages', reqs[r].device_unique_id) = {i}]_vars

\* two peek-polls have returned the same entry, which is still Queued
C4_Witness ==
    \E r1, r2 \in PollsWith(200) :
        /\ r1 # r2
        /\ reqs[r1].peek /\ reqs[r2].peek
        /\ reqs[r1].msg = reqs[r2].msg
        /\ reqs[r1].resBody.consumed = FALSE
        /\ Matching(deviceMessages, reqs[r1].device_unique_id) = {reqs[r1].msg.id}

\* C5: the round trip.  An enqueue of params P for D stores a Queued entry with
\* params P; a consume-poll of D that finds this one Queued entry returns
\* params P with consumed = true and leaves no Queued entry for D; and a
\* consume-poll of D that finds no Queued entry returns none (204).
C5_RoundTrip ==
    [][/\ \A r \in ReqIds :
             (reqs[r].kind = "enqueue" /\ reqs[r].pc = "awaitCreate"
                 /\ EnqueueCreate(r, TRUE) /\ reqs'[r].status = 201) =>
                 /\ Len(deviceMessages') = Len(deviceMessages) + 1
                 /\ Last(deviceMessages').device_unique_id = reqs[r].doc.device_unique_id
                 /\ Last(deviceMessages').params_to_send = reqs[r].doc.params_to_send
                 /\ Last(deviceMessages').consumed = FALSE
       /\ \A r \in ReqIds :
             (PollRuns(r) /\ ~reqs[r].peek) =>
                 LET d == reqs[r].device_unique_id
                 IN  /\ \A i \in 1..Len(deviceMessages) :
                           Matching(deviceMessages, d) = {i} =>
                               /\ reqs'[r].status = 200
                               /\ reqs'[r].resBody.params_to_send =
                                      deviceMessages[i].params_to_send
                               /\ reqs'[r].resBody.consumed = TRUE
                               /\ Matching(deviceMessages', d) = {}
                     /\ Matching(deviceMessages, d) = {} => reqs'[r].status = 204]_vars

\* a consume-poll of D has returned the entry with consumed = true and a second
\* consume-poll of D has returned none
C5_Witness ==
    \E r1 \in PollsWith(200), r2 \in PollsWith(204) :
        /\ ~reqs[r1].peek /\ ~reqs[r2].peek
        /\ reqs[r1].device_unique_id = reqs[r2].device_unique_id
        /\ reqs[r1].resBody.consumed = TRUE
        /\ reqs[r1].resBody.params_to_send = Str("p2")
        /\ Len(deviceMessages) = 1
        /\ Matching(deviceMessages, reqs[r1].device_unique_id) = {}

-----------------------------------------------------------------------------
(* Enqueue *)

\* the params the schema stores: any value other than undefined and null
StorableParams(p) == p.t \notin {"undefined", "null"}

\* (for part_000: when the awaited create of an enqueue with storable params
\* goes through, the handler answers 201 with the id of a new Queued entry for
\* the device the request named, registered or not)
C11_EnqueueCreates ==
    [][\A r \in ReqIds :
          (/\ reqs[r].kind = "enqueue" /\ reqs[r].pc = "awaitCreate"
           /\ StorableParams(reqs[r].doc.params_to_send)
           /\ EnqueueCreate(r, TRUE)) =>
              /\ Answered(r, 201)
              /\ Len(deviceMessages') = Len(deviceMessages) + 1
              /\ SubSeq(deviceMessages', 1, Len(deviceMessages)) = deviceMessages
              /\ Last(deviceMessages').id = reqs'[r].resBody.id
              /\ \A i \in 1..Len(deviceMessages) :
                    deviceMessages[i].id # reqs'[r].resBody.id
              /\ Last(deviceMessages').device_unique_id = reqs[r].doc.device_unique_id
              /\ Last(deviceMessages').consumed = FALSE]_vars

\* part_000 has queued a command for d2, a device that never ingested
C11_EnqueueWitness ==
    \E r \in ReqIds :
        /\ reqs[r].kind = "enqueue" /\ reqs[r].pc = "done" /\ reqs[r].status = 201
        /\ deviceMessages[reqs[r].resBody.id].device_unique_id = "d2"
        /\ ~deviceMessages[reqs[r].resBody.id].consumed

\* C11: an enqueue with a non-empty string device_id and defined params, for
\* any device_id (registered or not), whose awaited storage operations all
\* succeed, is answered 201 and nothing else, and the step that answers it has
\* appended a Queued entry for that device.  Stated of the app.js handler.
C11_AppEnqueueAnyDevice ==
    [][\A r \in ReqIds :
          (/\ reqs[r].kind = "appEnqueue" /\ Busy(r)
           /\ StorableParams(reqs[r].body.params_to_send)
           /\ (AppEnqueueDeviceFindOne(r, TRUE) \/ AppEnqueueCreate(r, TRUE))
           /\ reqs'[r].pc = "done") =>
              /\ Answered(r, 201)
              /\ Len(deviceMessages') = Len(deviceMessages) + 1
              /\ Last(deviceMessages').device_unique_id = reqs[r].body.device_unique_id.s
              /\ Last(deviceMessages').consumed = FALSE]_vars

-----------------------------------------------------------------------------
(* The durable history *)

Min(a, b) == IF a <= b THEN a ELSE b

\* the L of a query: the numeral given, DB_DATA_DEFAULT_LIMIT when none is given
RequestedLimit(q) ==
    IF q.limit \in {Undefined, Str("")} THEN DB_DATA_DEFAULT_LIMIT
    ELSE StringNumericValue(q.limit.s).n

\* the stored samples a query is about: all, or those of the device it names
StoredMatching(q) ==
    IF q.device_unique_id = Undefined THEN temperatures
    ELSE StoredFor(temperatures, q.device_unique_id.s)

\* the k most recent of docs, oldest first (equal timestamps in either order)
MostRecent(docs, k) ==
    {Reverse(SubSeq(Permuted(docs, p), 1, k)) : p \in DescOrders(docs)}

\* the answer to q is the min(L, stored) most recent samples, oldest first,
\* and never more than DB_DATA_MAX_LIMIT of them
DbDataExact(q, res) ==
    /\ res \in MostRecent(StoredMatching(q),
                          Min(Min(RequestedLimit(q), DB_DATA_MAX_LIMIT),
                              Len(StoredMatching(q))))
    /\ Len(res) <= DB_DATA_MAX_LIMIT

\* C12: every 200 response of GET /api/db-data with limit=L (optionally
\* filtered by device) is exactly the min(L, number stored) most recent stored
\* samples in chronological order, L defaulting to DB_DATA_DEFAULT_LIMIT, and
\* holds at most DB_DATA_MAX_LIMIT samples whatever the limit parameter is.
C12_DbDataExact ==
    \A q \in DbQueries :
        \A x \in DbDataResponses(q) :
            x.status = 200 => DbDataExact(q, x.resBody)

\* (the same for the queries whose limit is absent or at least 1)
C12_DbDataExactPositive ==
    \A q \in DbQueries :
        RequestedLimit(q) >= 1 =>
            \A x \in DbDataResponses(q) :
                x.status = 200 => DbDataExact(q, x.resBody)

\* three samples are stored, not in timestamp order, and limit=2 for d1
\* returns the two most recent of d1, oldest first
C12_PositiveWitness ==
    /\ Len(temperatures) = 3
    /\ temperatures[1].timestamp > temperatures[2].timestamp
    /\ \E x \in DbDataResponses(DbQuery(Str("2"), Str("d1"))) :
          /\ x.status = 200
          /\ Len(x.resBody) = 2
          /\ x.resBody[1].timestamp < x.resBody[2].timestamp
          /\ Len(StoredFor(temperatures, "d1")) = 3

\* (app.js: the answer never depends on the query)
C12_AppDbDataExact ==
    \A q \in DbQueries :
        q.device_unique_id = Undefined =>
            \A res \in AppDbDataResults(temperatures) : DbDataExact(q, res)

-----------------------------------------------------------------------------
(* The life of a command entry *)

\* the consume-poll in slot r returns entry i in this step
ConsumedBy(r, i) ==
    /\ r \in Polls /\ reqs[r].pc = "awaitFind" /\ ~reqs[r].peek
    /\ reqs[r].device_unique_id = deviceMessages[i].device_unique_id
    /\ reqs'[r].pc = "done" /\ reqs'[r].status = 200
    /\ reqs'[r].msg.id = i

\* C13: in every step, no entry leaves the DeviceMessage collection, an entry
\* changes in nothing but its consumed flag, the flag only goes from false to
\* true and only in the step of a consume-poll for the entry's device that
\* returns this entry, a new entry starts Queued, and the entry a poll (peek
\* or consume) returns was Queued when its query ran, so that a Delivered
\* entry is never returned again.
C13_QueuedThenDelivered ==
    [][/\ Len(deviceMessages') >= Len(deviceMessages)
       /\ \A i \in 1..Len(deviceMessages) :
             /\ deviceMessages'[i] = [deviceMessages[i] EXCEPT
                                         !.consumed = deviceMessages'[i].consumed]
             /\ deviceMessages[i].consumed => deviceMessages'[i].consumed
             /\ (~deviceMessages[i].consumed /\ deviceMessages'[i].consumed) =>
                   \E r \in ReqIds : ConsumedBy(r, i)
       /\ \A i \in (Len(deviceMessages) + 1)..Len(deviceMessages') :
             ~deviceMessages'[i].consumed
       /\ \A r \in ReqIds :
             (PollRuns(r) /\ reqs'[r].status = 200) =>
                 ~deviceMessages[reqs'[r].msg.id].consumed]_vars

\* an entry is Delivered, and a peek and a consume-poll for its device, both
\* run after the delivery, have returned none
C13_Witness ==
    \E i \in 1..Len(deviceMessages) :
        /\ deviceMessages[i].consumed
        /\ Matching(deviceMessages, deviceMessages[i].device_unique_id) = {}
        /\ \E r1, r2 \in PollsWith(204) :
              /\ reqs[r1].peek /\ ~reqs[r2].peek
              /\ reqs[r1].device_unique_id = deviceMessages[i].device_unique_id
              /\ reqs[r2].device_unique_id = deviceMessages[i].device_unique_id

-----------------------------------------------------------------------------
(* Ingest and the durable Sample Store *)

\* C14: the step in which an ingest is answered 201 is a step in which its
\* sample is written to the Temperature collection; an ingest that finds the
\* backend not connected, or whose write fails, is answered 500.
C14_CreatedOnlyIfPersisted ==
    [][/\ \A r \in ReqIds, body \in IngestBodies :
             (IngestValid(body) /\ IngestRequest(r, body)) =>
                 /\ Answered(r, 201) =>
                        temperatures' = Append(temperatures, MakeSample(body, now))
                 /\ readyState # 1 => Answered(r, 500)
       /\ \A r \in ReqIds :
             (reqs[r].kind = "ingest" /\ Busy(r) /\ Answered(r, 201)) =>
                 temperatures' = Append(temperatures, reqs[r].sample)
       /\ \A r \in ReqIds :
             (IngestMessageCreate(r, FALSE) \/ IngestTemperatureCreate(r, FALSE)) =>
                 Answered(r, 500)]_vars

\* (what holds of an ingest that finds the connection up: it is answered 201
\* in the step that writes its sample, and 500 when a write fails)
C14_CreatedWhenConnected ==
    [][/\ \A r \in ReqIds, body \in IngestBodies :
             (IngestValid(body) /\ readyState = 1 /\ IngestRequest(r, body)) =>
                 Busy(r)'
       /\ \A r \in ReqIds :
             (reqs[r].kind = "ingest" /\ Busy(r) /\ Answered(r, 201)) =>
                 temperatures' = Append(temperatures, reqs[r].sample)
       /\ \A r \in ReqIds :
             (IngestMessageCreate(r, FALSE) \/ IngestTemperatureCreate(r, FALSE)) =>
                 Answered(r, 500)]_vars

\* an ingest was answered 201 and nothing was ever persisted
C14_CreatedNotPersisted ==
    /\ temperatures = <<>>
    /\ \E r \in ReqIds :
          reqs[r].kind = "ingest" /\ reqs[r].pc = "done" /\ reqs[r].status = 201

-----------------------------------------------------------------------------
(* Delivery order *)

\* C15: when a consume-poll delivers an entry of a device, no entry of that
\* device delivered before it has a later timestamp: deliveries of one device
\* follow the timestamps the enqueue requests gave their commands.
C15_IssuanceOrder ==
    [][\A r \in ReqIds :
          (PollRuns(r) /\ ~reqs[r].peek /\ reqs'[r].status = 200) =>
              \A j \in 1..Len(deviceMessages) :
                  (/\ deviceMessages[j].device_unique_id = reqs[r].device_unique_id
                   /\ deviceMessages[j].consumed) =>
                      deviceMessages[j].timestamp <= reqs'[r].msg.timestamp]_vars

\* both commands of a device are Delivered, the one with the later timestamp
\* stored first
C15_OutOfOrderStored ==
    \E i, j \in 1..Len(deviceMessages) :
        /\ i < j
        /\ deviceMessages[i].device_unique_id = deviceMessages[j].device_unique_id
        /\ deviceMessages[i].timestamp > deviceMessages[j].timestamp
        /\ deviceMessages[i].consumed /\ deviceMessages[j].consumed

-----------------------------------------------------------------------------
(* The sweep *)

\* C16: a sweep at time now removes from the tracker exactly the devices with
\* now - last_seen > DEVICE_TTL_MS (a device at age == TTL stays), removes the
\* last-seen and the last-sample entry of each of them, keeps the entries of
\* the others as they are, and leaves liveSamples, the Temperature collection
\* and the DeviceMessage collection unchanged.
C16_SweepExact ==
    [][Sweep =>
          /\ UNCHANGED <<liveSamples, temperatures, deviceMessages>>
          /\ MapKeys(lastSeenByDevice') =
                {d \in MapKeys(lastSeenByDevice) :
                    ~(now - MapGet(lastSeenByDevice, d) > DEVICE_TTL_MS)}
          /\ MapKeys(lastSampleByDevice') =
                MapKeys(lastSampleByDevice) \ StaleIn(lastSeenByDevice, now)
          /\ \A d \in MapKeys(lastSeenByDevice') :
                /\ now - MapGet(lastSeenByDevice, d) <= DEVICE_TTL_MS
                /\ MapGet(lastSeenByDevice', d) = MapGet(lastSeenByDevice, d)
                /\ MapGet(lastSampleByDevice', d) = MapGet(lastSampleByDevice, d)]_vars

\* the sweep at time now has removed a device last seen at now - TTL - 1 and
\* kept a device last seen at now - TTL; the removed device's sample is still
\* in the ring and in the Temperature collection
C16_Witness ==
    \E gone, kept \in DeviceIds :
        /\ ~MapHas(lastSeenByDevice, gone) /\ ~MapHas(lastSampleByDevice, gone)
        /\ \E i \in 1..Len(pushed) :
              /\ pushed[i].device_unique_id = gone
              /\ pushed[i].timestamp = now - DEVICE_TTL_MS - 1
              /\ \A j \in 1..Len(pushed) :
                    pushed[j].device_unique_id = gone => pushed[j].timestamp <= pushed[i].timestamp
        /\ MapHas(lastSeenByDevice, kept) /\ MapHas(lastSampleByDevice, kept)
        /\ now - MapGet(lastSeenByDevice, kept) = DEVICE_TTL_MS
        /\ gone \in Ids(liveSamples)
        /\ gone \in Ids(temperatures)

-----------------------------------------------------------------------------
(* The presence tracker *)

\* C17: in every state each tracked device's last sample carries that
\* device's id, and in every step (ingest, sweep, clock) the last_seen of a
\* device that is tracked before and after the step does not decrease.
C17_TrackerConsistent ==
    /\ [](/\ \A i \in 1..Len(lastSampleByDevice) :
                lastSampleByDevice[i].v.device_unique_id = lastSampleByDevice[i].k
          /\ \A d \in MapKeys(lastSeenByDevice) :
                /\ MapHas(lastSampleByDevice, d)
                /\ MapGet(lastSampleByDevice, d).device_unique_id = d)
    /\ [][/\ now' >= now
          /\ \A d \in MapKeys(lastSeenByDevice) \cap MapKeys(lastSeenByDevice') :
                MapGet(lastSeenByDevice', d) >= MapGet(lastSeenByDevice, d)]_vars

\* two devices are tracked, and one of them has reported twice without being
\* swept in between: its last_seen went up to now
C17_Witness ==
    /\ MapKeys(lastSeenByDevice) = DeviceIds
    /\ \E d \in DeviceIds :
          /\ MapGet(lastSeenByDevice, d) = now
          /\ MapGet(lastSampleByDevice, d).timestamp = now
          /\ \E i \in 1..Len(pushed) :
                /\ pushed[i].device_unique_id = d
                /\ pushed[i].timestamp < now
                /\ now - pushed[i].timestamp <= DEVICE_TTL_MS

\* the record steps (positions in the history) made for device d
RecordsOf(d) == {i \in 1..Len(pushed) : pushed[i].device_unique_id = d}

\* the record step executed last for device d
LastRecordOf(d) == CHOOSE i \in RecordsOf(d) : \A j \in RecordsOf(d) : j <= i

\* C18: in every state the last-seen map and the last-sample map have the
\* same keys, and for each tracked device both values are those written by
\* the one record step executed last for that device: the sample it built and
\* the time at which it ran.
C18_MapsFromSameIngest ==
    /\ MapKeys(lastSeenByDevice) = MapKeys(lastSampleByDevice)
    /\ Len(lastSeenByDevice) = Cardinality(MapKeys(lastSeenByDevice))
    /\ Len(lastSampleByDevice) = Cardinality(MapKeys(lastSampleByDevice))
    /\ \A d \in MapKeys(lastSeenByDevice) :
          /\ RecordsOf(d) # {}
          /\ MapGet(lastSampleByDevice, d) = pushed[LastRecordOf(d)]
          /\ MapGet(lastSeenByDevice, d) = pushed[LastRecordOf(d)].timestamp

\* two ingest handlers for one device are in flight, and the tracker holds the
\* values of the one that recorded last
C18_Witness ==
    \E r1, r2 \in ReqIds :
        /\ reqs[r1].kind = "ingest" /\ Busy(r1)
        /\ reqs[r2].kind = "ingest" /\ Busy(r2)
        /\ reqs[r1].sample.device_unique_id = reqs[r2].sample.device_unique_id
        /\ reqs[r1].sample.timestamp < reqs[r2].sample.timestamp
        /\ reqs[r1].sample.value # reqs[r2].sample.value
        /\ MapHas(lastSeenByDevice, reqs[r2].sample.device_unique_id)
        /\ MapGet(lastSampleByDevice, reqs[r2].sample.device_unique_id) = reqs[r2].sample
        /\ MapGet(lastSeenByDevice, reqs[r2].sample.device_unique_id) =
               reqs[r2].sample.timestamp

-----------------------------------------------------------------------------
(* Mailboxes of different devices *)

\* the entries a poll for device d can return on this collection
Pollable(store, d) == {store[i] : i \in Oldest(store, d)}

\* C19: a poll for device D (peek or consume) returns only an entry of D and
\* leaves every entry of another device as it is; and the insert of an
\* enqueue for D' leaves what a poll for any other device D can return as it is.
C19_MailboxIsolation ==
    [][/\ \A r \in ReqIds :
             PollRuns(r) =>
                 /\ reqs'[r].status = 200 =>
                        /\ reqs'[r].msg.device_unique_id = reqs[r].device_unique_id
                        /\ reqs'[r].resBody.device_unique_id = reqs[r].device_unique_id
                 /\ Len(deviceMessages') = Len(deviceMessages)
                 /\ \A i \in 1..Len(deviceMessages) :
                       deviceMessages[i].device_unique_id # reqs[r].device_unique_id =>
                           deviceMessages'[i] = deviceMessages[i]
       /\ \A r \in ReqIds, ok \in BOOLEAN :
             (reqs[r].kind = "enqueue" /\ reqs[r].pc = "awaitCreate"
                 /\ EnqueueCreate(r, ok)) =>
                 \A d \in DeviceIds \ {reqs[r].doc.device_unique_id} :
                     Pollable(deviceMessages', d) = Pollable(deviceMessages, d)]_vars

\* a consume-poll for one device has returned its entry while an older entry
\* of the other device stays Queued
C19_Witness ==
    \E r \in PollsWith(200) :
        /\ ~reqs[r].peek
        /\ \E i \in 1..Len(deviceMessages) :
              /\ deviceMessages[i].device_unique_id # reqs[r].device_unique_id
              /\ ~deviceMessages[i].consumed
              /\ deviceMessages[i].timestamp < reqs[r].msg.timestamp
              /\ i < reqs[r].msg.id
        /\ deviceMessages[reqs[r].msg.id].consumed

-----------------------------------------------------------------------------
(* Delivery of every command *)

\* the i-th entry of the collection exists and is Queued / is Delivered
QueuedAt(i) == i <= Len(deviceMessages) /\ ~deviceMessages[i].consumed
DeliveredAt(i) == i <= Len(deviceMessages) /\ deviceMessages[i].consumed

====
